---- MODULE Spec2Model ----
(***************************************************************************)
(* A model of the SimpleSwitch of dam-networks (src/switches/simple.rs),   *)
(* its static routing policy (src/switches/policy.rs) and its packets      *)
(* (src/switches/routing.rs), together with the producers that feed its    *)
(* input channels and the consumers that drain its output channels.        *)
(*                                                                         *)
(* The channels are those of the dam crate.  What the switch relies on:    *)
(*   peek()            non-blocking: Something(elem), Nothing(sender's     *)
(*                     time) or Closed (sender finished, channel empty);   *)
(*   next_event()      Ready(elem.time) / Nothing(t) / Closed of peek(),   *)
(*                     ordered Ready < Nothing < Closed, then by time;     *)
(*   peek_next(time)   blocks for an element or the closure, and advances  *)
(*                     the caller's clock to the element's timestamp;      *)
(*   dequeue(time)     peek_next, then removes the head;                   *)
(*   wait_until_available(time)  returns at once while the sender's view   *)
(*                     of the channel holds fewer than its capacity, and   *)
(*                     otherwise blocks for the receiver's next dequeue    *)
(*                     and advances the caller's clock to its time;        *)
(*   time.advance(t)   time := max(time, t);  incr_cycles(1)  time += 1.   *)
(***************************************************************************)
EXTENDS Integers, Sequences, FiniteSets, TLC

\* ------------------------------------------------------------------ bounds
MaxPort == 2        \* port ids are drawn from 0..MaxPort
MaxInputs == 2      \* input ports attached to the switch
TotalPkts == 2      \* packets the producers put, over all inputs
MaxStamp == 1       \* largest timestamp a producer writes
MaxLatency == 1     \* the switch's latency is drawn from 0..MaxLatency
MaxConsDelay == 1   \* ticks a consumer may spend before a dequeue
OutCap == 1         \* capacity of every output channel

PortIds == 0..MaxPort
Latencies == 0..MaxLatency

\* --------------------------------------------------------------- variables
VARIABLES
    in_map,            \* keys of SimpleSwitch.in_map
    in_order,          \* the order in which in_map.values() iterates
    out_map,           \* keys of SimpleSwitch.out_map
    policy,            \* the static table: destination -> set of output ids
    latency,           \* SimpleSwitch.latency
    time,              \* the switch's clock (self.time)
    pc,                \* position of run: attach/determine/process/wait/enqueue/done/panic
    panic,             \* which panic ended run ("" while none)
    ready,             \* elements of the ready set the for loop has not visited yet
    occupied_outputs,  \* occupied_outputs of the current pass
    cur,               \* the packet being forwarded: [port, data, targets] or NoPkt
    towait,            \* targets the first for_each has not waited on yet
    inq,               \* input channels: sequences of [time, data]
    closed,            \* input channels whose sender has finished
    pclk,              \* each producer's clock
    outq,              \* output channels: elements not yet dequeued
    resp,              \* per output: dequeue times the sender has not absorbed yet
    cclk,              \* each consumer's clock
    sent,              \* history: every element put on each input
    delivered,         \* history: every element enqueued on each output
    fwd,               \* history: one record per forwarded packet
    pass,              \* history: what the current pass saw and did
    passes,            \* history: number of completed passes
    lastCall           \* history: the last add_port call and the maps before it

vars == << in_map, in_order, out_map, policy, latency, time, pc, panic, ready,
           occupied_outputs, cur, towait, inq, closed, pclk, outq, resp, cclk,
           sent, delivered, fwd, pass, passes, lastCall >>

switchVars == << time, pc, panic, ready, occupied_outputs, cur, towait >>
configVars == << in_map, in_order, out_map, policy, latency, lastCall >>
histVars   == << fwd, pass, passes >>

\* ------------------------------------------------------------------ helpers
\* An advance that sets the clock instead of raising it.
MaxTakesSecond(a, b) == b

\* time.advance(t): the later of the clock and t
Max(a, b) == IF a >= b THEN a ELSE b

\* The greatest element (max() for min()).
SetMax(S) == CHOOSE x \in S : \A y \in S : x >= y

\* .min().unwrap() over the times of one kind of status
SetMin(S) == CHOOSE x \in S : \A y \in S : x <= y

NoPkt == [port |-> -1, data |-> [dest |-> -1, payload |-> << >>], targets |-> {}, dec |-> -1,
          blocked |-> FALSE]

NoPass == [t |-> -1, heads |-> << >>, set |-> {}, deq |-> {}, skipped |-> {}, over |-> FALSE,
           peek |-> << >>, clk |-> -1, prev |-> -1, end |-> -1]

NoCall == [id |-> -1, input |-> FALSE, output |-> FALSE, ins |-> {}, outs |-> {},
           nin |-> 0, nout |-> 0]

\* The orders in which a hash map with key set S may iterate.
Orders(S) ==
    { s \in [1..Cardinality(S) -> S] : \A a, b \in 1..Cardinality(S) : s[a] = s[b] => a = b }

\* The static table of the test: 1 -> {1}, 2 -> {2}, and a multicast entry.
PolicyTable == (1 :> {1}) @@ (2 :> {2}) @@ (3 :> {1, 2})

\* Destinations the producers write; 4 is not a key of the table.
Dests == {1, 2, 3, 4}

\* Packet::destination for SimplePacket
destination(data) == data.dest

\* A lookup that falls back to the empty set on a miss (unwrap_or_default).
routeOrEmpty(table, target) ==
    [hit |-> TRUE, set |-> IF target \in DOMAIN table THEN table[target] ELSE {}]

\* Policy::route for the hash map: Some(set) => set.clone(), None => panic!
route(table, target) ==
    IF target \in DOMAIN table
       THEN [hit |-> TRUE, set |-> table[target]]
       ELSE [hit |-> FALSE, set |-> {}]

\* The route call of run on the head element of input k.
RouteOf(k) == route(policy, destination(Head(inq[k]).data))

\* A stamp that leaves the latency out.
StampWithoutLatency(t, lat) == t

\* time: self.time.tick() + self.latency
Stamp(t, lat) == t + lat

\* A copy whose destination is rewritten to the default.
CloneResetsDestination(data) == [data EXCEPT !.dest = 0]

\* data.clone()
Clone(data) == data

\* A check that accepts a packet as soon as one of its targets is free.
IsReadyIfAnyFree(occ, targets) == targets \ occ # {}

\* occupied_outputs.intersection(&targets).count() == 0
IsReady(occ, targets) == occ \cap targets = {}

\* The outputs the second for_each enqueues a copy on.
EnqueueTargets(targets) == targets

\* A dequeue that leaves the head in place (a peek).
PopKeepsHead(q) == q

\* dequeue removes the head of the channel.
Pop(q) == Tail(q)

\* A peek that never blocks: an empty open channel reads as the end.
PeekNeverBlocks(q, isClosed) == TRUE

\* peek_next returns: Ok once an element is there, Err once the channel is
\* closed and empty; until then it blocks.
PeekNextReturns(q, isClosed) == q # << >> \/ isClosed

\* One id space for both directions.
VacantInBoth(map, id) == id \notin in_map \cup out_map

\* insert(id, ..).is_none(): the mapping of that direction has no such key.
Vacant(map, id) == id \notin map

\* Responses a sender has seen: it drops those at or before its clock.
RECURSIVE Absorb(_, _)
Absorb(rs, t) ==
    IF rs # << >> /\ Head(rs) <= t THEN Absorb(Tail(rs), t) ELSE rs

RECURSIVE SumLen(_, _)
SumLen(f, S) ==
    IF S = {} THEN 0
    ELSE LET x == CHOOSE y \in S : TRUE IN Len(f[x]) + SumLen(f, S \ {x})

\* ------------------------------------------------------------ initial state
\* Output mappings the runs start from: both targets of the table attached,
\* or output 2 left unattached.
OutConfigs == { {1, 2}, {1} }

\* The state after new(policy, latency) and the add_port calls, before run.
Init ==
    /\ in_map \in { S \in SUBSET PortIds : Cardinality(S) <= MaxInputs }
    /\ in_order \in Orders(in_map)
    /\ out_map \in OutConfigs
    /\ policy = PolicyTable
    /\ latency \in Latencies
    /\ time = 0
    /\ pc = "determine"
    /\ panic = ""
    /\ ready = {}
    /\ occupied_outputs = {}
    /\ cur = NoPkt
    /\ towait = {}
    /\ inq = [i \in PortIds |-> << >>]
    /\ closed = [i \in PortIds |-> FALSE]
    /\ pclk = [i \in PortIds |-> 0]
    /\ outq = [o \in PortIds |-> << >>]
    /\ resp = [o \in PortIds |-> << >>]
    /\ cclk = [o \in PortIds |-> 0]
    /\ sent = [i \in PortIds |-> << >>]
    /\ delivered = [o \in PortIds |-> << >>]
    /\ fwd = << >>
    /\ pass = NoPass
    /\ passes = 0
    /\ lastCall = NoCall

\* ---------------------------------------------------------------- producers
\* A producer enqueues an element on its channel (the generator of the test).
Put(i, d, s) ==
    /\ i \in in_map
    /\ ~closed[i]
    /\ SumLen(sent, PortIds) < TotalPkts
    /\ s >= pclk[i]
    /\ LET e == [time |-> s, data |-> [dest |-> d, payload |-> << i, Len(sent[i]) >>]] IN
         /\ inq' = [inq EXCEPT ![i] = Append(@, e)]
         /\ sent' = [sent EXCEPT ![i] = Append(@, e)]
    /\ pclk' = [pclk EXCEPT ![i] = s]
    /\ UNCHANGED << switchVars, configVars, histVars, closed, outq, resp, cclk, delivered >>

\* A producer finishes: its sender is dropped.
Close(i) ==
    /\ i \in in_map
    /\ ~closed[i]
    /\ closed' = [closed EXCEPT ![i] = TRUE]
    /\ UNCHANGED << switchVars, configVars, histVars, inq, pclk, outq, resp, cclk,
                    sent, delivered >>

\* ---------------------------------------------------------------- consumers
\* A consumer dequeues the head of output o at its own time, which the
\* sender later sees as the time the slot became free.
Consume(o, d) ==
    /\ o \in out_map
    /\ outq[o] # << >>
    /\ LET c == Max(cclk[o], Head(outq[o]).time) + d IN
         /\ cclk' = [cclk EXCEPT ![o] = c]
         /\ resp' = [resp EXCEPT ![o] = Append(@, c)]
    /\ outq' = [outq EXCEPT ![o] = Tail(@)]
    /\ UNCHANGED << switchVars, configVars, histVars, inq, closed, pclk, sent, delivered >>

\* ------------------------------------------------- advance_to_next_event
Quit ==
    /\ pc' = "done"
    /\ UNCHANGED << time, panic, ready, occupied_outputs, cur, towait >>

\* if self.in_map.is_empty() { return Event::Quit; }
DetermineEmpty ==
    /\ pc = "determine"
    /\ in_map = {}
    /\ Quit
    /\ UNCHANGED << configVars, histVars, inq, closed, pclk, outq, resp, cclk, sent, delivered >>

\* self.in_map.len() == 1: rcv.peek_next(&self.time), which blocks.
DetermineSingle ==
    /\ pc = "determine"
    /\ Cardinality(in_map) = 1
    /\ LET id == in_order[1] IN
         /\ PeekNextReturns(inq[id], closed[id])
         /\ IF inq[id] # << >>
               THEN /\ time' = Max(time, Head(inq[id]).time)
                    /\ ready' = {id}
                    /\ occupied_outputs' = {}
                    /\ pc' = "process"
                    /\ pass' = [t |-> time', heads |-> (id :> Head(inq[id])), set |-> {id},
                                deq |-> {}, skipped |-> {}, over |-> FALSE,
                                peek |-> (id :> Head(inq[id])), clk |-> time',
                                prev |-> pass.end, end |-> -1]
                    /\ UNCHANGED << panic, cur, towait >>
               ELSE /\ Quit
                    /\ UNCHANGED pass
    /\ UNCHANGED << configVars, fwd, passes, inq, closed, pclk, outq, resp, cclk,
                    sent, delivered >>

\* chan.next_event() of the attached inputs
ReadyTimes == { Head(inq[i]).time : i \in { j \in in_map : inq[j] # << >> } }

NothingTimes == { pclk[i] : i \in { j \in in_map : inq[j] = << >> /\ ~closed[j] } }

\* A filter that compares the head with the clock after the hop, not with t.
ReadySetAtClock(t) ==
    { k \in 0..(Len(in_order) - 1) :
        /\ inq[in_order[k + 1]] # << >>
        /\ Head(inq[in_order[k + 1]]).time <= (IF time >= t THEN time ELSE t) }

\* .values().enumerate().filter(peek is Something(x) with x.time <= t).map(|(ind, _)| ind)
ReadySet(t) ==
    { k \in 0..(Len(in_order) - 1) :
        /\ inq[in_order[k + 1]] # << >>
        /\ Head(inq[in_order[k + 1]]).time <= t }

\* The input ports whose head element has a timestamp at or before t, each
\* with that element.
Due(t) ==
    [ i \in { j \in in_map : inq[j] # << >> /\ Head(inq[j]).time <= t } |-> Head(inq[i]) ]

\* What peek() returns on the inputs that hold an element.
Peeked == [ i \in { j \in in_map : inq[j] # << >> } |-> Head(inq[i]) ]

\* Closed as soon as one input is closed and empty (max() for min()).
SomeInputClosed == \E i \in in_map : inq[i] = << >> /\ closed[i]

\* min() of the statuses is Closed: no input is Ready and none is Nothing.
EveryInputClosed == ReadyTimes = {} /\ NothingTimes = {}

\* EventTime::Ready(t): hop to t and return the ready set.
DetermineReady ==
    /\ pc = "determine"
    /\ Cardinality(in_map) >= 2
    /\ ReadyTimes # {}
    /\ LET t == SetMin(ReadyTimes) IN
         /\ time' = Max(time, t)
         /\ ready' = ReadySet(t)
         /\ pass' = [t |-> t, heads |-> Due(t), set |-> ReadySet(t), deq |-> {},
                     skipped |-> {}, over |-> FALSE, peek |-> Peeked, clk |-> time',
                     prev |-> pass.end, end |-> -1]
    /\ occupied_outputs' = {}
    /\ pc' = "process"
    /\ UNCHANGED << panic, cur, towait, configVars, fwd, passes, inq, closed, pclk,
                    outq, resp, cclk, sent, delivered >>

\* EventTime::Nothing(t): self.time.advance(t + 1), and loop.
DetermineNothing ==
    /\ pc = "determine"
    /\ Cardinality(in_map) >= 2
    /\ ReadyTimes = {}
    /\ NothingTimes # {}
    /\ time' = Max(time, SetMin(NothingTimes) + 1)
    /\ UNCHANGED << pc, panic, ready, occupied_outputs, cur, towait, configVars,
                    histVars, inq, closed, pclk, outq, resp, cclk, sent, delivered >>

\* EventTime::Closed: every input is closed and empty.
DetermineClosed ==
    /\ pc = "determine"
    /\ Cardinality(in_map) >= 2
    /\ EveryInputClosed
    /\ Quit
    /\ UNCHANGED << configVars, histVars, inq, closed, pclk, outq, resp, cclk, sent, delivered >>

\* ----------------------------------------------------------------- run
Panic(msg) ==
    /\ pc' = "panic"
    /\ panic' = msg

\* self.in_map.get(&input_port).unwrap() on an id that is no key
VisitNoPort(k) ==
    /\ pc = "process"
    /\ k \in ready
    /\ k \notin in_map
    /\ Panic("in_map.get")
    /\ ready' = ready \ {k}
    /\ UNCHANGED << time, occupied_outputs, cur, towait, configVars, histVars, inq,
                    closed, pclk, outq, resp, cclk, sent, delivered >>

\* panic!("Port {:?} was supposed to be ready", input_port)
VisitNotReady(k) ==
    /\ pc = "process"
    /\ k \in ready
    /\ k \in in_map
    /\ inq[k] = << >>
    /\ Panic("not ready")
    /\ ready' = ready \ {k}
    /\ UNCHANGED << time, occupied_outputs, cur, towait, configVars, histVars, inq,
                    closed, pclk, outq, resp, cclk, sent, delivered >>

\* self.policy.route(..) panics: "Could not find appropriate routing for location!"
VisitNoRoute(k) ==
    /\ pc = "process"
    /\ k \in ready
    /\ k \in in_map
    /\ inq[k] # << >>
    /\ ~RouteOf(k).hit
    /\ Panic("route")
    /\ ready' = ready \ {k}
    /\ UNCHANGED << time, occupied_outputs, cur, towait, configVars, histVars, inq,
                    closed, pclk, outq, resp, cclk, sent, delivered >>

\* if !is_ready { continue; }
VisitSkip(k) ==
    /\ pc = "process"
    /\ k \in ready
    /\ k \in in_map
    /\ inq[k] # << >>
    /\ RouteOf(k).hit
    /\ ~IsReady(occupied_outputs, RouteOf(k).set)
    /\ ready' = ready \ {k}
    /\ pass' = [pass EXCEPT !.skipped = @ \cup {k}]
    /\ UNCHANGED << time, pc, panic, occupied_outputs, cur, towait, configVars, fwd,
                    passes, inq, closed, pclk, outq, resp, cclk, sent, delivered >>

\* Pop it off since it's ready: dequeue(&self.time)
VisitDequeue(k) ==
    /\ pc = "process"
    /\ k \in ready
    /\ k \in in_map
    /\ inq[k] # << >>
    /\ RouteOf(k).hit
    /\ LET e == Head(inq[k])
           targets == RouteOf(k).set IN
         /\ IsReady(occupied_outputs, targets)
         /\ time' = Max(time, e.time)
         /\ cur' = [port |-> k, data |-> e.data, targets |-> targets, dec |-> time',
                     blocked |-> FALSE]
         /\ towait' = targets
    /\ inq' = [inq EXCEPT ![k] = Pop(@)]
    /\ ready' = ready \ {k}
    /\ pass' = [pass EXCEPT !.deq = @ \cup {k}]
    /\ pc' = IF towait' = {} THEN "enqueue" ELSE "wait"
    /\ UNCHANGED << panic, occupied_outputs, configVars, fwd, passes, closed, pclk,
                    outq, resp, cclk, sent, delivered >>

\* A lookup that passes over a target without endpoint (if let Some(..)).
WaitIgnoresMissing(x) ==
    /\ pc = "wait"
    /\ x \in towait
    /\ x \notin out_map
    /\ towait' = towait \ {x}
    /\ pc' = IF towait' = {} THEN "enqueue" ELSE "wait"
    /\ UNCHANGED << time, panic, ready, occupied_outputs, cur, configVars, histVars,
                    inq, closed, pclk, outq, resp, cclk, sent, delivered >>

\* self.out_map.get(x).unwrap() on an id that is no key
WaitNoPort(x) ==
    /\ pc = "wait"
    /\ x \in towait
    /\ x \notin out_map
    /\ Panic("out_map.get")
    /\ UNCHANGED << time, ready, occupied_outputs, cur, towait, configVars, histVars,
                    inq, closed, pclk, outq, resp, cclk, sent, delivered >>

\* A wait that returns at once, whether the target has room or not.
WaitSkipped(x) ==
    /\ pc = "wait"
    /\ x \in towait
    /\ x \in out_map
    /\ towait' = towait \ {x}
    /\ pc' = IF towait' = {} THEN "enqueue" ELSE "wait"
    /\ UNCHANGED << time, cur, resp, panic, ready, occupied_outputs, configVars, histVars,
                    inq, closed, pclk, outq, cclk, sent, delivered >>

\* wait_until_available(&self.time) on one target
WaitAvailable(x) ==
    /\ pc = "wait"
    /\ x \in towait
    /\ x \in out_map
    /\ LET rs == Absorb(resp[x], time) IN
         IF Len(outq[x]) + Len(rs) < OutCap
            THEN /\ resp' = [resp EXCEPT ![x] = rs]
                 /\ time' = time
                 /\ cur' = cur
            ELSE /\ rs # << >>
                 /\ resp' = [resp EXCEPT ![x] = Tail(rs)]
                 /\ time' = Head(rs)
                 /\ cur' = [cur EXCEPT !.blocked = TRUE]
    /\ towait' = towait \ {x}
    /\ pc' = IF towait' = {} THEN "enqueue" ELSE "wait"
    /\ UNCHANGED << panic, ready, occupied_outputs, configVars, histVars, inq,
                    closed, pclk, outq, cclk, sent, delivered >>

\* The second for_each, then occupied_outputs.extend(targets).
Enqueue ==
    /\ pc = "enqueue"
    /\ LET e == [time |-> Stamp(time, latency), data |-> Clone(cur.data)]
           T == EnqueueTargets(cur.targets) IN
         /\ outq' = [o \in PortIds |-> IF o \in T THEN Append(outq[o], e) ELSE outq[o]]
         /\ delivered' = [o \in PortIds |->
                            IF o \in T THEN Append(delivered[o], e) ELSE delivered[o]]
         /\ fwd' = Append(fwd, [port |-> cur.port, data |-> cur.data,
                                targets |-> cur.targets, dec |-> cur.dec,
                                blocked |-> cur.blocked, enq |-> time,
                                stamp |-> e.time, pass |-> passes])
    /\ occupied_outputs' = occupied_outputs \cup cur.targets
    /\ cur' = NoPkt
    /\ pc' = "process"
    /\ UNCHANGED << time, panic, ready, towait, configVars, pass, passes, inq, closed,
                    pclk, resp, cclk, sent >>

\* The end of a pass without the tick of incr_cycles(1).
EndPassWithoutTick ==
    /\ pc = "process"
    /\ ready = {}
    /\ time' = time
    /\ pc' = "determine"
    /\ passes' = passes + 1
    /\ pass' = [pass EXCEPT !.over = TRUE, !.end = time]
    /\ UNCHANGED << panic, ready, occupied_outputs, cur, towait, configVars, fwd, inq,
                    closed, pclk, outq, resp, cclk, sent, delivered >>

\* The for loop is over: self.time.incr_cycles(1)
EndPass ==
    /\ pc = "process"
    /\ ready = {}
    /\ time' = time + 1
    /\ pc' = "determine"
    /\ passes' = passes + 1
    /\ pass' = [pass EXCEPT !.over = TRUE, !.end = time]
    /\ UNCHANGED << panic, ready, occupied_outputs, cur, towait, configVars, fwd, inq,
                    closed, pclk, outq, resp, cclk, sent, delivered >>

Determine ==
    \/ DetermineEmpty
    \/ DetermineSingle
    \/ DetermineReady
    \/ DetermineNothing
    \/ DetermineClosed

Visit ==
    \E k \in 0..MaxPort :
        \/ VisitNoPort(k)
        \/ VisitNotReady(k)
        \/ VisitNoRoute(k)
        \/ VisitSkip(k)
        \/ VisitDequeue(k)

Wait == \E x \in PortIds : WaitNoPort(x) \/ WaitAvailable(x)

Switch == Determine \/ Visit \/ Wait \/ Enqueue \/ EndPass

Producers == \E i \in PortIds : Close(i) \/ \E d \in Dests, s \in 0..MaxStamp : Put(i, d, s)

Consumers == \E o \in PortIds, d \in 0..MaxConsDelay : Consume(o, d)

Next == Switch \/ Producers \/ Consumers

Spec == Init /\ [][Next]_vars

\* The same program under the scheduling the simulation gives it: the switch
\* and every consumer are threads that keep running while they can step.
FairSpec ==
    /\ Init
    /\ [][Next]_vars
    /\ WF_vars(Switch)
    /\ \A o \in PortIds : WF_vars(\E d \in 0..MaxConsDelay : Consume(o, d))

\* ------------------------------------------------------------- add_port
\* The state after new(policy, latency), before any add_port call.
InitAttach ==
    /\ in_map = {}
    /\ in_order = << >>
    /\ out_map = {}
    /\ policy = PolicyTable
    /\ latency \in Latencies
    /\ time = 0
    /\ pc = "attach"
    /\ panic = ""
    /\ ready = {}
    /\ occupied_outputs = {}
    /\ cur = NoPkt
    /\ towait = {}
    /\ inq = [i \in PortIds |-> << >>]
    /\ closed = [i \in PortIds |-> FALSE]
    /\ pclk = [i \in PortIds |-> 0]
    /\ outq = [o \in PortIds |-> << >>]
    /\ resp = [o \in PortIds |-> << >>]
    /\ cclk = [o \in PortIds |-> 0]
    /\ sent = [i \in PortIds |-> << >>]
    /\ delivered = [o \in PortIds |-> << >>]
    /\ fwd = << >>
    /\ pass = NoPass
    /\ passes = 0
    /\ lastCall = NoCall

\* add_port(Port { id, input, output }): the input side first, then the
\* output side; either assert! aborts the call where it stands.
AddPort(id, hasIn, hasOut) ==
    /\ pc = "attach"
    /\ LET inOk  == ~hasIn \/ Vacant(in_map, id)
           outOk == ~hasOut \/ Vacant(out_map, id) IN
         /\ in_map' = IF hasIn THEN in_map \cup {id} ELSE in_map
         /\ IF in_map' = in_map THEN in_order' = in_order ELSE in_order' \in Orders(in_map')
         /\ out_map' = IF inOk /\ hasOut THEN out_map \cup {id} ELSE out_map
         /\ IF ~inOk THEN Panic("Input port was already occupied!")
            ELSE IF ~outOk THEN Panic("Output port was already occupied!")
            ELSE UNCHANGED << pc, panic >>
         /\ lastCall' = [id |-> id, input |-> hasIn, output |-> hasOut,
                         ins |-> in_map, outs |-> out_map,
                         nin |-> lastCall.nin + (IF hasIn /\ inOk THEN 1 ELSE 0),
                         nout |-> lastCall.nout + (IF inOk /\ hasOut /\ outOk THEN 1 ELSE 0)]
    /\ UNCHANGED << policy, latency, time, ready, occupied_outputs, cur, towait, inq,
                    closed, pclk, outq, resp, cclk, sent, delivered, fwd, pass, passes >>

NextAttach == \E id \in PortIds, hasIn \in BOOLEAN, hasOut \in BOOLEAN : AddPort(id, hasIn, hasOut)

AttachSpec == InitAttach /\ [][NextAttach]_vars

\* =================================================================== claims
\* What the history variables say about one packet.
Datas(seq) == [n \in 1..Len(seq) |-> seq[n].data]

IsPrefix(a, b) == Len(a) <= Len(b) /\ \A n \in 1..Len(a) : a[n] = b[n]

\* The elements enqueued on output o whose packet was put on input i.
FromInput(o, i) == SelectSeq(delivered[o], LAMBDA e : e.data.payload[1] = i)

\* The elements put on input i whose policy target set contains o.
BoundFor(i, o) ==
    SelectSeq(sent[i], LAMBDA e : route(PolicyTable, e.data.dest).hit
                                  /\ o \in route(PolicyTable, e.data.dest).set)

\* Number of elements the switch has removed from input i.
Dequeued(i) == Len(sent[i]) - Len(inq[i])

FwdRecords == { fwd[n] : n \in 1..Len(fwd) }

\* run was aborted by a configuration error (a route miss or a target that
\* has no output endpoint).
ConfigAbort == pc = "panic" /\ panic \in {"route", "out_map.get"}

\* -------------------------------------------------------------------- C1
\* C1: for every input i and output o, the packets enqueued on o that came
\* from i are a prefix of the packets put on i whose target set contains o,
\* in the order of i; once run has returned they are all of them.
C1_NoLossDupReorder ==
    \A i \in in_map, o \in PortIds :
        /\ IsPrefix(Datas(FromInput(o, i)), Datas(BoundFor(i, o)))
        /\ pc = "done" => Datas(FromInput(o, i)) = Datas(BoundFor(i, o))

\* run has returned after forwarding two packets of one input to one output
\* while a second input was attached.
C1_Witness ==
    /\ pc = "done"
    /\ Cardinality(in_map) = 2
    /\ \E i \in in_map, o \in PortIds : Len(FromInput(o, i)) = 2

\* -------------------------------------------------------------------- C2
\* The target sets of the two head elements a pass found due intersect.
Contended(h) ==
    /\ Cardinality(DOMAIN h) = 2
    /\ \A i \in DOMAIN h : route(PolicyTable, h[i].data.dest).hit
    /\ \E i, j \in DOMAIN h :
         /\ i # j
         /\ route(PolicyTable, h[i].data.dest).set
              \cap route(PolicyTable, h[j].data.dest).set # {}

\* C2: when exactly two inputs are ready at the computed time and their
\* target sets intersect, the pass (completed, or cut short by a panic that
\* is no configuration error) dequeues and forwards exactly one of them and
\* leaves the other at the head of its input.
C2_Contention ==
    ((pass.over \/ (pc = "panic" /\ ~ConfigAbort)) /\ Contended(pass.heads)) =>
        \E a \in DOMAIN pass.heads :
            /\ a \in pass.deq
            /\ \E r \in FwdRecords : r.data = pass.heads[a].data
            /\ \A b \in DOMAIN pass.heads \ {a} :
                 /\ b \notin pass.deq
                 /\ inq[b] # << >>
                 /\ Head(inq[b]) = pass.heads[b]

\* -------------------------------------------------------------------- C3
\* The n-th packet put on input i has been dequeued and forwarded.
Forwarded(i, n) ==
    /\ Dequeued(i) >= n
    /\ \E r \in FwdRecords : r.data = sent[i][n].data

\* C3: with the switch and the consumers running, every packet put on an
\* input is eventually dequeued and forwarded (a deferred packet in a later
\* pass), unless a configuration error aborts run.
C3_NoStarvation ==
    \A i \in PortIds, n \in 1..TotalPkts :
        (Len(sent[i]) >= n) ~> (Forwarded(i, n) \/ ConfigAbort)

\* -------------------------------------------------------------------- C4
\* C4 as claimed: every forwarded packet is stamped with the clock at which
\* it was removed from its input plus the latency, a wait on a full output
\* in between changing nothing.
C4_StampIsDecisionPlusLatency ==
    \A r \in FwdRecords : r.stamp = r.dec + latency

\* C4 as amended: every copy is stamped with the clock at which the copies
\* are enqueued plus the latency; that clock is the decision-time clock
\* unless a wait on a full target output advanced it, and is never earlier.
C4_StampIsEnqueuePlusLatency ==
    /\ \A r \in FwdRecords :
         /\ r.stamp = r.enq + latency
         /\ r.enq >= r.dec
         /\ ~r.blocked => r.enq = r.dec
    /\ \A o \in PortIds : \A n \in 1..Len(delivered[o]) :
         \E r \in FwdRecords :
            /\ r.data = delivered[o][n].data
            /\ r.stamp = delivered[o][n].time

\* A packet was enqueued after a wait on a full output moved the clock past
\* its decision time.
C4_Witness ==
    \E r \in FwdRecords : r.blocked /\ r.enq > r.dec /\ latency > 0

\* -------------------------------------------------------------------- C5
\* C5: every output of a packet's target set receives a copy with the
\* destination and payload of the input packet, and all copies of one packet
\* carry one delivery timestamp.
C5_MulticastCopies ==
    /\ \A r \in FwdRecords : \A o \in r.targets :
         \E n \in 1..Len(delivered[o]) : delivered[o][n].data = r.data
    /\ \A o \in PortIds : \A n \in 1..Len(delivered[o]) :
         LET e == delivered[o][n]
             i == e.data.payload[1]
             m == e.data.payload[2] + 1 IN
           /\ m <= Len(sent[i])
           /\ e.data = sent[i][m].data
    /\ \A o1, o2 \in PortIds :
         \A n1 \in 1..Len(delivered[o1]), n2 \in 1..Len(delivered[o2]) :
            delivered[o1][n1].data.payload = delivered[o2][n2].data.payload
               => delivered[o1][n1] = delivered[o2][n2]

\* A packet with a two-element target set was forwarded after a wait moved
\* the clock.
C5_Witness ==
    \E r \in FwdRecords : Cardinality(r.targets) = 2 /\ r.enq > r.dec

\* -------------------------------------------------------------------- C6
\* The outputs that hold a copy of the packet of record r.
CopiesOf(r) ==
    { o \in PortIds : \E n \in 1..Len(delivered[o]) : delivered[o][n].data = r.data }

\* C6: a packet is forwarded to every output of its target set or to none:
\* a packet whose targets meet occupied_outputs is not dequeued in that pass,
\* so the packets forwarded in one pass have disjoint target sets, and a
\* dequeued packet is on all its targets before another input is visited.
C6_AllOrNothing ==
    /\ \A r \in FwdRecords : CopiesOf(r) = r.targets
    /\ \A n1, n2 \in 1..Len(fwd) :
         (n1 # n2 /\ fwd[n1].pass = fwd[n2].pass) => fwd[n1].targets \cap fwd[n2].targets = {}
    /\ \A r \in FwdRecords : r.pass = passes => r.targets \subseteq occupied_outputs
    /\ \A k \in pass.skipped : k \notin pass.deq
    /\ cur # NoPkt => pc \in {"wait", "enqueue", "panic"}
    /\ Len(fwd) + (IF cur # NoPkt THEN 1 ELSE 0) = SumLen(sent, PortIds) - SumLen(inq, PortIds)

\* A pass forwarded a multicast packet and skipped the other ready input,
\* whose target set shares one output with it.
C6_Witness ==
    /\ pass.over
    /\ pass.skipped # {}
    /\ \E r \in FwdRecords : r.pass = passes - 1 /\ Cardinality(r.targets) = 2

\* -------------------------------------------------------------------- C7
\* Every attached input is closed and holds no packet.
AllClosedAndDrained == \A i \in in_map : closed[i] /\ inq[i] = << >>

\* Every output the policy can name has an endpoint.
OutputsAttached == \A d \in DOMAIN policy : policy[d] \subseteq out_map

\* C7: with two or more inputs, run returns only when every input is closed
\* and empty, and once they are (with outputs that accept) it returns.
C7_Termination ==
    /\ [](pc = "done" /\ Cardinality(in_map) >= 2 => AllClosedAndDrained)
    /\ (Cardinality(in_map) >= 2 /\ OutputsAttached /\ AllClosedAndDrained) ~> (pc = "done")

\* run has returned with two inputs, one packet forwarded from each.
C7_Witness ==
    /\ pc = "done"
    /\ Cardinality(in_map) = 2
    /\ \A i \in in_map : Dequeued(i) = 1
    /\ Len(fwd) = 2

\* -------------------------------------------------------------------- C8
\* C8: with no input run returns at once, the clock and the outputs
\* untouched; with one input, run returns after the producer closed, having
\* forwarded every packet it put, one per pass.
C8_ZeroOrOneInput ==
    /\ (in_map = {} /\ pc = "done") =>
         /\ time = 0
         /\ passes = 0
         /\ \A o \in PortIds : delivered[o] = << >>
    /\ in_map = {} => pc \in {"determine", "done"}
    /\ (Cardinality(in_map) = 1 /\ pc = "done") =>
         \A i \in in_map :
            /\ closed[i]
            /\ inq[i] = << >>
            /\ Len(fwd) = Len(sent[i])
            /\ passes = Len(sent[i])
            /\ \A n \in 1..Len(fwd) : fwd[n].data = sent[i][n].data /\ fwd[n].pass = n - 1

\* run has returned with one input after forwarding two packets.
C8_Witness ==
    /\ pc = "done"
    /\ Cardinality(in_map) = 1
    /\ Len(fwd) = 2

\* -------------------------------------------------------------------- C9
\* A side the last add_port call provided was already a key of the mapping
\* of its direction.
Collides(c) == (c.input /\ c.id \in c.ins) \/ (c.output /\ c.id \in c.outs)

\* C9: an add_port call aborts exactly when a side it provides is already a
\* key of the mapping of the same direction; a call that does not abort adds
\* its sides, so each mapping holds one endpoint per id, and no packet has
\* been processed.
C9_AddPort ==
    /\ lastCall # NoCall => (pc = "panic" <=> Collides(lastCall))
    /\ (lastCall # NoCall /\ pc # "panic") =>
         /\ in_map = lastCall.ins \cup (IF lastCall.input THEN {lastCall.id} ELSE {})
         /\ out_map = lastCall.outs \cup (IF lastCall.output THEN {lastCall.id} ELSE {})
    /\ pc # "panic" =>
         /\ Cardinality(in_map) = lastCall.nin
         /\ Cardinality(out_map) = lastCall.nout
    /\ fwd = << >> /\ passes = 0

\* An id already used by an input was attached as an output, and accepted.
C9_Witness ==
    /\ pc = "attach"
    /\ lastCall.output
    /\ ~lastCall.input
    /\ lastCall.id \in lastCall.ins
    /\ lastCall.id \in in_map \cap out_map

\* ------------------------------------------------------------------- C10
\* C10: a packet whose destination is no key of the table is never dequeued:
\* run aborts at the route call with the packet still at the head of its
\* input and no output touched for it; for a key, the targets are the stored
\* set, and the table is unchanged.
C10_RouteMiss ==
    /\ \A i \in PortIds : \A n \in 1..Dequeued(i) : sent[i][n].data.dest \in DOMAIN PolicyTable
    /\ (pc = "panic" /\ panic = "route") =>
         /\ cur = NoPkt
         /\ towait = {}
         /\ \E k \in in_map :
              /\ inq[k] # << >>
              /\ Head(inq[k]).data.dest \notin DOMAIN PolicyTable
              /\ \A o \in PortIds : \A n \in 1..Len(delivered[o]) :
                    delivered[o][n].data # Head(inq[k]).data
    /\ \A r \in FwdRecords : r.targets = PolicyTable[r.data.dest]
    /\ cur # NoPkt => cur.targets = PolicyTable[cur.data.dest]
    /\ policy = PolicyTable

\* run was aborted by a route miss while an earlier packet had been forwarded.
C10_Witness ==
    /\ pc = "panic"
    /\ panic = "route"
    /\ Len(fwd) >= 1

\* ------------------------------------------------------------------- C11
\* C11: the clock of the switch never decreases (a jump to a ready time T or
\* to L + 1 that lies behind the clock leaves it where it is), the end of a
\* pass adds one tick, and the clock at the start of a pass is at least the
\* clock at the end of the pass before it plus one, with one input and with
\* several.
C11_ClockMonotonic ==
    /\ [][time' >= time]_vars
    /\ [][(pc = "process" /\ pc' = "determine") => time' = time + 1]_vars
    /\ [](pass.prev >= 0 => pass.clk >= pass.prev + 1)
    /\ [](pass.end >= 0 => time >= pass.end + 1)

\* A second pass of a switch with two inputs started on a ready time that
\* lay behind the clock.
C11_Witness ==
    /\ pc = "process"
    /\ Cardinality(in_map) = 2
    /\ pass.prev >= 0
    /\ pass.t < pass.clk
    /\ pass.clk = pass.prev + 1

\* ------------------------------------------------------------------- C12
\* C12: with two or more inputs, the ready set a determination returns is
\* exactly the set of port ids (keys of in_map) whose head element has a
\* timestamp at or before the minimum ready time T.
C12_ReadySetIsDuePorts ==
    (Cardinality(in_map) >= 2 /\ pass # NoPass) =>
        pass.set = { j \in DOMAIN pass.peek : pass.peek[j].time <= pass.t }

\* ------------------------------------------------------------------- C14
\* The inputs are attached under the ids 0..n-1 and iterate in that order,
\* so that the position of an input is its id.
IdsArePositions == \A k \in 1..Len(in_order) : in_order[k] = k - 1

C18_LoopAssertions ==
    /\ ~(pc = "panic" /\ panic \in {"in_map.get", "not ready"})
    /\ ready \subseteq in_map
    /\ \A k \in ready : inq[k] # << >>

\* ------------------------------------------------------------------- C15
\* The number of elements the switch, as sender, counts on output o: those
\* in the channel and those dequeued at a time its clock has not reached.
SenderView(o) == Len(outq[o]) + Len(Absorb(resp[o], time))

\* C15: no output ever holds more elements than its capacity; a wait on a
\* target ends only with room on that target, and when the copies are
\* enqueued every target has room, so that no copy is refused; every copy
\* enqueued stays in its channel until the consumer takes it; and while run
\* is at the waits it dequeues no input and enqueues nothing.
C15_Backpressure ==
    /\ [](\A o \in PortIds : Len(outq[o]) <= OutCap /\ SenderView(o) <= OutCap)
    /\ [](pc = "enqueue" => \A o \in cur.targets : o \in out_map /\ SenderView(o) < OutCap)
    /\ [](\A o \in PortIds :
            /\ Len(outq[o]) <= Len(delivered[o])
            /\ \A n \in 1..Len(outq[o]) :
                 outq[o][n] = delivered[o][Len(delivered[o]) - Len(outq[o]) + n])
    /\ [][\A x \in towait \ towait' :
            pc' # "panic" => Len(outq'[x]) + Len(Absorb(resp'[x], time')) < OutCap]_vars
    /\ [][pc = "wait" =>
            /\ pc' \in {"wait", "enqueue", "panic"}
            /\ fwd' = fwd
            /\ delivered' = delivered
            /\ \A i \in PortIds : Len(inq'[i]) >= Len(inq[i])]_vars

\* A packet was enqueued on an output after run had been suspended at the
\* wait on a full target, and that output is full again.
C15_Witness ==
    \E r \in FwdRecords :
        /\ r.blocked
        /\ \E o \in r.targets : Len(outq[o]) = OutCap /\ Len(delivered[o]) = 2

\* ------------------------------------------------------------------- C16
\* t is the least element of S.
IsLeast(t, S) == t \in S /\ \A y \in S : t <= y

\* C16: a determination step of a switch with two or more inputs goes by
\* the statuses of its inputs.  If one is Ready, also when another reports
\* Nothing at an earlier time, the clock is raised to the least ready time
\* and a pass starts on a ready set that is not empty; if none is Ready and
\* one reports Nothing, the clock is raised to the least such time plus one,
\* nothing is dequeued and run stays in the determination; run returns from
\* there only when every input is closed and empty.
C16_StatusSelection ==
    /\ [][(pc = "determine" /\ Cardinality(in_map) >= 2 /\ switchVars' # switchVars) =>
            IF ReadyTimes # {}
               THEN /\ pc' = "process"
                    /\ \E t \in ReadyTimes :
                         /\ IsLeast(t, ReadyTimes)
                         /\ time' = (IF time >= t THEN time ELSE t)
                         /\ pass'.t = t
                    /\ ready' # {}
                    /\ inq' = inq
               ELSE IF NothingTimes # {}
                       THEN /\ pc' = "determine"
                            /\ \E l \in NothingTimes :
                                 /\ IsLeast(l, NothingTimes)
                                 /\ time' = (IF time >= l + 1 THEN time ELSE l + 1)
                            /\ inq' = inq
                            /\ fwd' = fwd
                            /\ ready' = ready
                       ELSE /\ pc' = "done"
                            /\ time' = time]_vars
    /\ [][(Cardinality(in_map) >= 2 /\ pc # "done" /\ pc' = "done") =>
            \A i \in in_map : inq[i] = << >> /\ closed[i]]_vars

\* A pass started on the ready time of one input while the other input was
\* empty and open with its sender at an earlier time.
C16_Witness ==
    /\ pc = "process"
    /\ Cardinality(in_map) = 2
    /\ pass.deq = {}
    /\ pass.skipped = {}
    /\ ready = pass.set
    /\ pass.clk = pass.t
    /\ \E j \in in_map : inq[j] = << >> /\ ~closed[j] /\ pclk[j] < pass.t

\* ------------------------------------------------------------------- C17
\* The forwarded packets of pass p that have output o among their targets.
ForwardedTo(o, p) == { n \in 1..Len(fwd) : fwd[n].pass = p /\ o \in fwd[n].targets }

\* C17: on every output the delivery timestamp of each enqueued element is
\* greater than that of the element enqueued before it, by one at least,
\* whatever inputs the two came from; and no pass enqueues two packets on
\* one output.
C17_OutputStampsIncrease ==
    /\ \A o \in PortIds : \A n \in 1..(Len(delivered[o]) - 1) :
         delivered[o][n + 1].time >= delivered[o][n].time + 1
    /\ \A o \in PortIds : \A p \in 0..passes : Cardinality(ForwardedTo(o, p)) <= 1

\* One output received the packets of two inputs in consecutive passes, the
\* second stamped one tick after the first.
C17_Witness ==
    \E o \in PortIds :
        /\ Len(delivered[o]) = 2
        /\ delivered[o][1].data.payload[1] # delivered[o][2].data.payload[1]
        /\ delivered[o][2].time = delivered[o][1].time + 1
        /\ Cardinality(ForwardedTo(o, 0)) = 1
        /\ Cardinality(ForwardedTo(o, 1)) = 1

\* ------------------------------------------------------------------- C19
\* The packet run holds has a target without output endpoint.
HoldsUnattached == cur # NoPkt /\ cur.targets \ out_map # {}

\* C19: a packet with a target that has no output endpoint is dequeued and
\* then run aborts at the lookup of that target: the packet is on no input
\* any more and no copy of it is on any output, its attached targets
\* included; such a packet is never enqueued, and with the consumers
\* running the abort does come.
C19_UnattachedTarget ==
    /\ []((pc = "panic" /\ panic = "out_map.get") =>
            /\ HoldsUnattached
            /\ Dequeued(cur.port) >= 1
            /\ sent[cur.port][Dequeued(cur.port)].data = cur.data
            /\ \A i \in PortIds : \A n \in 1..Len(inq[i]) : inq[i][n].data # cur.data
            /\ \A o \in PortIds : \A n \in 1..Len(delivered[o]) :
                  delivered[o][n].data # cur.data
            /\ \A r \in FwdRecords : r.data # cur.data)
    /\ [](HoldsUnattached => pc \in {"wait", "panic"})
    /\ [](\A r \in FwdRecords : r.targets \subseteq out_map)
    /\ [](\A o \in PortIds \ out_map : delivered[o] = << >>)
    /\ HoldsUnattached ~> (pc = "panic" /\ panic = "out_map.get")

\* run aborted on a multicast packet after the wait on its attached target
\* had returned: the packet is gone from its input and on no output.
C19_Witness ==
    /\ pc = "panic"
    /\ panic = "out_map.get"
    /\ cur.targets = {1, 2}
    /\ out_map = {1}
    /\ towait = {2}
    /\ inq[cur.port] = << >>
    /\ delivered[1] = << >>

\* ------------------------------------------------------------------- C20
\* C20: the ready set handed to a pass is not empty; the first input the
\* pass processes is dequeued and forwarded (unless a configuration error
\* aborts run there), and no input is skipped before one was forwarded;
\* so every pass dequeues a packet, and the completed passes are no more
\* than the packets forwarded.
C20_PassProgress ==
    /\ pass # NoPass => pass.set # {}
    /\ (pass # NoPass /\ ready # pass.set) => (pass.deq # {} \/ ConfigAbort)
    /\ pass.skipped # {} => pass.deq # {}
    /\ pass.over => pass.deq # {}
    /\ passes <= Len(fwd)

====
